---- MODULE Spec2Model ----
(***************************************************************************)
(* A model of the registry decoder of src/registry_windows.go (the second *)
(* Parse, lines 334-599): Parse builds an entry tree from the target's    *)
(* type (entryFor), populates it from the store (populate: RegOpenKeyEx,  *)
(* RegQueryValueEx twice per value, RegCloseKey in a defer) and then      *)
(* writes the decoded values into the target (unmarshal).                 *)
(*                                                                         *)
(* Strings are sequences: a field tag is the sequence of its characters   *)
(* with every name kept as one token, a decoded text is its sequence of   *)
(* runes.  Integers stored in the target are kept as their little-endian  *)
(* bytes, so that widths and truncation are exact.                        *)
(*                                                                         *)
(* Error kinds stand for the messages of the code:                        *)
(*   MalformedTarget       "registry: cannot unmarshal into non-struct"    *)
(*   UrlError              the error of url.Parse                          *)
(*   UnknownRoot           "registry: unknown root key '%s'"               *)
(*   RequiredMissing       "registry: required key/value '%s' could not    *)
(*                          be opened."                                    *)
(*   StoreError            the raw error of the second RegQueryValueEx     *)
(*   UnsupportedStoreType  "... but we don't know what do do with it"      *)
(*   TypeMismatch          every "tried to unmarshal ... into ..." error   *)
(*   panic                 a Go panic (the call does not return)           *)
(*                                                                         *)
(* Every store call is one step whose outcome the store chooses.  A panic *)
(* unwinds the frames of populate like an error does, running the         *)
(* deferred closes.  Names hold no NUL, so UTF16PtrFromString succeeds.    *)
(***************************************************************************)
EXTENDS Integers, Sequences, FiniteSets, TLC

VARIABLES
    phase,        \* position of Parse: "idle", "populate", "unmarshal", "done"
    u,            \* the parsed location (regUrl of Parse) or a parse error
    ttype,        \* the static type of the argument i of Parse
    target,       \* the value of the argument i of Parse
    target0,      \* the value of i when Parse was called
    intSize,      \* width in bits of Go's int and uint in this build
    storeValues,  \* the typed values the store can hold
    ent,          \* the entry tree (registryKey / registryValue)
    stack,        \* call stack of populate
    err,          \* the error the returning populate hands to its caller
    result,       \* what Parse returned
    ops,          \* the store operations issued so far, in order
    open,         \* the handles opened and not yet closed
    nextHandle,   \* the next handle the store gives out
    crv,          \* a lone registryValue handed to unmarshal
    ctype,        \* the type of the field that lone value is written to
    cout          \* the outcome of that unmarshal

vars == <<phase, u, ttype, target, target0, intSize, storeValues, ent, stack,
          err, result, ops, open, nextHandle, crv, ctype, cout>>

engineVars == <<phase, u, ttype, target, target0, storeValues, ent, stack,
                err, result, ops, open, nextHandle>>

codecVars == <<crv, ctype, cout>>

-----------------------------------------------------------------------------
(* Bounds *)

\* longest multi-text / text buffer of the codec runs, in UTF-16 code units
MaxUnits == 5

\* number of value fields of the nested struct of the engine runs
MaxSubValues == 1

-----------------------------------------------------------------------------
(* Store type tags (package syscall) *)

REG_NONE == 0
REG_SZ == 1
REG_EXPAND_SZ == 2
REG_BINARY == 3
REG_DWORD_LITTLE_ENDIAN == 4
REG_DWORD_BIG_ENDIAN == 5
REG_LINK == 6
REG_MULTI_SZ == 7
REG_QWORD_LITTLE_ENDIAN == 11

kindUnknown == 0 - 1
kindBigNumeric == 2
kindNumeric == 3
kindString == 4
kindData == 5
kindMultiString == 6

RuneError == 65533

-----------------------------------------------------------------------------
(* Sequences *)

RECURSIVE SplitFrom(_, _, _, _)
\* strings.Split(s, sep) for a one-element separator: the segments between
\* the occurrences of sep, from position i on, cur being the open segment
SplitFrom(s, sep, i, cur) ==
    IF i > Len(s) THEN <<cur>>
    ELSE IF s[i] = sep THEN <<cur>> \o SplitFrom(s, sep, i + 1, <<>>)
    ELSE SplitFrom(s, sep, i + 1, Append(cur, s[i]))

\* a split that drops an empty last segment
SplitDroppingEmptyTail(s, sep) ==
    LET segs == SplitFrom(s, sep, 1, <<>>)
    IN  IF Len(segs) > 1 /\ segs[Len(segs)] = <<>>
        THEN SubSeq(segs, 1, Len(segs) - 1)
        ELSE segs

Split(s, sep) == SplitFrom(s, sep, 1, <<>>)

Reverse(s) == [i \in 1..Len(s) |-> s[Len(s) + 1 - i]]

Zeros(n) == [i \in 1..n |-> 0]

SeqsUpTo(S, n) == UNION {[1..k -> S] : k \in 0..n}

-----------------------------------------------------------------------------
(* Go types and values (package reflect) *)

Scalar(k) == [k |-> k]

SliceOf(e) == [k |-> "Slice", elem |-> e]

PtrTo(e) == [k |-> "Ptr", elem |-> e]

StructOf(fields) == [k |-> "Struct", fields |-> fields]

\* reflect.StructField: PkgPath is empty for an exported field, Tag is the
\* value of the `registry` key of the field's tag
StructField(name, tag, anonymous, pkgPath, typ) ==
    [Name |-> name, Tag |-> tag, Anonymous |-> anonymous, PkgPath |-> pkgPath,
     Type |-> typ]

UintKinds == {"Uint", "Uint8", "Uint16", "Uint32"}

IntKinds == {"Int", "Int8", "Int16", "Int32"}

\* the size in bytes of an integer kind
Width(k) ==
    CASE k \in {"Uint8", "Int8"} -> 1
      [] k \in {"Uint16", "Int16"} -> 2
      [] k \in {"Uint32", "Int32"} -> 4
      [] k \in {"Uint64", "Int64"} -> 8
      [] k \in {"Uint", "Int"} -> intSize \div 8

NilPtr == [t |-> "ptr", nil |-> TRUE]

PtrVal(v) == [t |-> "ptr", nil |-> FALSE, e |-> v]

NilSlice == [t |-> "slice", nil |-> TRUE, e |-> <<>>]

SliceVal(s) == [t |-> "slice", nil |-> FALSE, e |-> s]

IntVal(b) == [t |-> "int", b |-> b]

StrVal(s) == [t |-> "str", s |-> s]

StructVal(f) == [t |-> "struct", f |-> f]

RECURSIVE Zero(_)
\* reflect.Zero / reflect.New(t).Elem(): the zero value of a type
Zero(typ) ==
    CASE typ.k = "Struct" ->
           StructVal([i \in 1..Len(typ.fields) |-> Zero(typ.fields[i].Type)])
      [] typ.k = "Ptr" -> NilPtr
      [] typ.k = "Slice" -> NilSlice
      [] typ.k = "String" -> StrVal(<<>>)
      [] typ.k \in UintKinds \cup IntKinds \cup {"Uint64", "Int64"} ->
           IntVal(Zeros(Width(typ.k)))
      [] OTHER -> [t |-> "other"]

-----------------------------------------------------------------------------
(* The value codec: utf16BytesToUTF8 and registryValue.unmarshal *)

IsSurrogate(r) == r >= 55296 /\ r < 57344

IsHighSurrogate(r) == r >= 55296 /\ r < 56320

IsLowSurrogate(r) == r >= 56320 /\ r < 57344

RECURSIVE Utf16Decode(_, _)
\* utf16.Decode(s) from position i on
Utf16Decode(s, i) ==
    IF i > Len(s) THEN <<>>
    ELSE IF ~IsSurrogate(s[i]) THEN <<s[i]>> \o Utf16Decode(s, i + 1)
    ELSE IF IsHighSurrogate(s[i]) /\ i + 1 <= Len(s) /\ IsLowSurrogate(s[i + 1])
         THEN <<(s[i] - 55296) * 1024 + (s[i + 1] - 56320) + 65536>>
              \o Utf16Decode(s, i + 2)
    ELSE <<RuneError>> \o Utf16Decode(s, i + 1)

utf16BytesToUTF8(b) ==
    LET n == (Len(b) + (2 - 1)) \div 2
        utf == [j \in 1..n |->
                  IF 2 * j <= Len(b) THEN b[2 * j - 1] + 256 * b[2 * j]
                  ELSE IF j = n /\ Len(b) \div 2 < n THEN RuneError
                  ELSE 0]
    IN  Utf16Decode(utf, 1)

\* string(runes): a rune that is no valid code point becomes U+FFFD
RunesToString(r) ==
    [j \in 1..Len(r) |->
        IF r[j] < 0 \/ r[j] > 1114111 \/ IsSurrogate(r[j]) THEN RuneError ELSE r[j]]

\* binary.Read(bytes.NewReader(data), bo, &v) for v of n bytes, v given by its
\* little-endian bytes; a short read leaves v zero and its error is ignored
BinaryRead(data, n, bigEndian) ==
    IF Len(data) < n THEN Zeros(n)
    ELSE IF bigEndian THEN Reverse(SubSeq(data, 1, n))
    ELSE SubSeq(data, 1, n)

\* SetUint / SetInt: the integer x (its little-endian bytes) stored in a field
\* of w bytes, zero-extended or truncated
SetInteger(x, w) == [j \in 1..w |-> IF j <= Len(x) THEN x[j] ELSE 0]

\* the first switch of registryValue.unmarshal: the decoded x and its kind
DecodeRaw(rv) ==
    CASE rv.kind = REG_DWORD_BIG_ENDIAN ->
           [err |-> "nil", newKind |-> kindNumeric, x |-> BinaryRead(rv.data, 4, TRUE)]
      [] rv.kind = REG_DWORD_LITTLE_ENDIAN ->
           [err |-> "nil", newKind |-> kindNumeric, x |-> BinaryRead(rv.data, 4, FALSE)]
      [] rv.kind = REG_QWORD_LITTLE_ENDIAN ->
           [err |-> "nil", newKind |-> kindBigNumeric, x |-> BinaryRead(rv.data, 8, FALSE)]
      [] rv.kind \in {REG_SZ, REG_EXPAND_SZ} ->
           IF Len(rv.data) < 2
           THEN [err |-> "panic", newKind |-> kindUnknown, x |-> <<>>]
           ELSE [err |-> "nil", newKind |-> kindString,
                 x |-> RunesToString(utf16BytesToUTF8(SubSeq(rv.data, 1, Len(rv.data) - 2)))]
      [] rv.kind = REG_MULTI_SZ ->
           LET multiSzs == Split(RunesToString(utf16BytesToUTF8(rv.data)), 0)
           IN  IF Len(multiSzs) < 2
               THEN [err |-> "panic", newKind |-> kindUnknown, x |-> <<>>]
               ELSE [err |-> "nil", newKind |-> kindMultiString,
                     x |-> SubSeq(multiSzs, 1, Len(multiSzs) - 2)]
      [] rv.kind = REG_BINARY ->
           [err |-> "nil", newKind |-> kindData, x |-> rv.data]
      [] OTHER ->
           [err |-> "UnsupportedStoreType", newKind |-> kindUnknown, x |-> <<>>]

\* a conversion that lets an integer of either width into every integer field
ConvertAnyInteger(newKind, x, typ, canSet) ==
    LET set(v) == IF canSet THEN [err |-> "nil", written |-> TRUE, val |-> v]
                  ELSE [err |-> "panic", written |-> FALSE, val |-> v]
        mismatch == [err |-> "TypeMismatch", written |-> FALSE, val |-> Zero(typ)]
    IN  CASE typ.k \in UintKinds \cup IntKinds \cup {"Uint64", "Int64"} ->
               IF newKind \notin {kindNumeric, kindBigNumeric} THEN mismatch
               ELSE set(IntVal(SetInteger(x, Width(typ.k))))
          [] typ.k = "Slice" ->
               IF typ.elem.k = "Uint8"
               THEN IF newKind # kindData THEN mismatch ELSE set(SliceVal(x))
               ELSE IF typ.elem.k = "String"
               THEN IF newKind # kindMultiString THEN mismatch
                    ELSE set(SliceVal([j \in 1..Len(x) |-> StrVal(x[j])]))
               ELSE mismatch
          [] typ.k = "String" ->
               IF newKind # kindString THEN mismatch ELSE set(StrVal(x))
          [] OTHER -> mismatch

\* the second switch of registryValue.unmarshal: x of kind newKind written to a
\* field of type typ; canSet is reflect's CanSet of the field
Convert(newKind, x, typ, canSet) ==
    LET set(v) == IF canSet THEN [err |-> "nil", written |-> TRUE, val |-> v]
                  ELSE [err |-> "panic", written |-> FALSE, val |-> v]
        mismatch == [err |-> "TypeMismatch", written |-> FALSE, val |-> Zero(typ)]
    IN  CASE typ.k \in UintKinds \cup IntKinds ->
               IF newKind # kindNumeric THEN mismatch
               ELSE set(IntVal(SetInteger(x, Width(typ.k))))
          [] typ.k \in {"Uint64", "Int64"} ->
               IF newKind # kindBigNumeric THEN mismatch
               ELSE set(IntVal(SetInteger(x, Width(typ.k))))
          [] typ.k = "Slice" ->
               IF typ.elem.k = "Uint8"
               THEN IF newKind # kindData THEN mismatch ELSE set(SliceVal(x))
               ELSE IF typ.elem.k = "String"
               THEN IF newKind # kindMultiString THEN mismatch
                    ELSE set(SliceVal([j \in 1..Len(x) |-> StrVal(x[j])]))
               ELSE mismatch
          [] typ.k = "String" ->
               IF newKind # kindString THEN mismatch ELSE set(StrVal(x))
          [] OTHER -> mismatch

\* registryValue.unmarshal(val): val is the current value of a field of type
\* typ.  Returns the error and the value of the field afterwards.
ValueUnmarshal(rv, typ, val, canSet) ==
    IF rv.skip THEN [err |-> "nil", val |-> val]
    ELSE
      LET d == DecodeRaw(rv)
      IN  IF d.err # "nil" THEN [err |-> d.err, val |-> val]
          ELSE IF typ.k = "Ptr"
          THEN \* val.Set(reflect.New(val.Type().Elem())), then val = val.Elem()
               IF ~canSet THEN [err |-> "panic", val |-> val]
               ELSE LET c == Convert(d.newKind, d.x, typ.elem, TRUE)
                    IN  [err |-> c.err,
                         val |-> PtrVal(IF c.written THEN c.val ELSE Zero(typ.elem))]
          ELSE LET c == Convert(d.newKind, d.x, typ, canSet)
               IN  [err |-> c.err, val |-> IF c.written THEN c.val ELSE val]

-----------------------------------------------------------------------------
(* The schema walker: fieldToFieldInfo and entryFor *)

NilFieldInfo == [isNil |-> TRUE]

\* &fieldInfo{...}
FieldInfo(name, required, index, anonymous) ==
    [isNil |-> FALSE, name |-> name, required |-> required, index |-> index,
     anonymous |-> anonymous]

\* field is the i-th field of its struct, so field.Index is <<i>>
fieldToFieldInfo(field, i) ==
    IF field.PkgPath # <<>> THEN NilFieldInfo
    ELSE IF field.Tag = <<"-">> THEN NilFieldInfo
    ELSE LET sp == Split(field.Tag, ",")
             name == IF sp[1] = <<>> THEN field.Name ELSE sp[1]
             required == \E c \in 2..Len(sp) : sp[c] = <<"required">>
         IN  FieldInfo(name, required, <<i>>, field.Anonymous)

NoHandle == [root |-> "", id |-> 0]

RootHandle(name) == [root |-> name, id |-> 0]

StoreHandle(n) == [root |-> "", id |-> n]

RECURSIVE entryFor(_, _, _)
RECURSIVE subentriesFrom(_, _)
\* the loop of entryFor over the fields i.. of the struct type typ
subentriesFrom(typ, i) ==
    IF i > Len(typ.fields) THEN <<>>
    ELSE LET newFi == fieldToFieldInfo(typ.fields[i], i)
         IN  IF newFi = NilFieldInfo THEN subentriesFrom(typ, i + 1)
             ELSE <<entryFor(typ.fields[i].Type, newFi.name, newFi)>>
                  \o subentriesFrom(typ, i + 1)

entryFor(typ0, path, fi) ==
    LET typ == IF typ0.k = "Ptr" THEN typ0.elem ELSE typ0
    IN  IF typ.k = "Struct"
        THEN [isKey |-> TRUE, hkey |-> NoHandle, field |-> fi, path |-> path,
              skip |-> FALSE, subentries |-> subentriesFrom(typ, 1)]
        ELSE [isKey |-> FALSE, field |-> fi, data |-> <<>>, kind |-> 0 - 1,
              skip |-> FALSE]

NoEntry == [isKey |-> FALSE, isNone |-> TRUE]

RECURSIVE EntAt(_, _)
\* the entry at position pos (the chain of subentry indices from the root)
EntAt(e, pos) ==
    IF pos = <<>> THEN e ELSE EntAt(e.subentries[Head(pos)], Tail(pos))

RECURSIVE EntPut(_, _, _)
\* the tree e with the entry at position pos replaced by n
EntPut(e, pos, n) ==
    IF pos = <<>> THEN n
    ELSE [e EXCEPT !.subentries[Head(pos)] = EntPut(@, Tail(pos), n)]

RECURSIVE Positions(_, _)
\* the positions of all entries of the tree e, e itself being at position at
Positions(e, at) ==
    {at} \cup
    (IF e.isKey
     THEN UNION {Positions(e.subentries[j], Append(at, j)) : j \in 1..Len(e.subentries)}
     ELSE {})

-----------------------------------------------------------------------------
(* unmarshal, the second pass *)

RECURSIVE EntryUnmarshal(_, _, _, _)
RECURSIVE SubentriesUnmarshal(_, _, _, _, _)
\* the loop of registryKey.unmarshal from subentry j on, into the struct
\* value val of type typ
SubentriesUnmarshal(rk, j, typ, val, canSet) ==
    IF j > Len(rk.subentries) THEN [err |-> "nil", val |-> val]
    ELSE LET sub == rk.subentries[j]
             ix == sub.field.index[1]
             r == EntryUnmarshal(sub, typ.fields[ix].Type, val.f[ix], canSet)
             newVal == [val EXCEPT !.f[ix] = r.val]
         IN  IF r.err # "nil" THEN [err |-> r.err, val |-> newVal]
             ELSE SubentriesUnmarshal(rk, j + 1, typ, newVal, canSet)

\* registryKey.unmarshal(val)
KeyUnmarshal(rk, typ, val, canSet) ==
    IF rk.skip THEN [err |-> "nil", val |-> val]
    ELSE IF typ.k = "Ptr"
    THEN IF val.nil /\ ~canSet THEN [err |-> "panic", val |-> val]
         ELSE LET pointee == IF val.nil THEN Zero(typ.elem) ELSE val.e
                  r == SubentriesUnmarshal(rk, 1, typ.elem, pointee, TRUE)
              IN  [err |-> r.err, val |-> PtrVal(r.val)]
    ELSE SubentriesUnmarshal(rk, 1, typ, val, canSet)

EntryUnmarshal(e, typ, val, canSet) ==
    IF e.isKey THEN KeyUnmarshal(e, typ, val, canSet)
    ELSE ValueUnmarshal(e, typ, val, canSet)

-----------------------------------------------------------------------------
(* Parse and populate, the first pass *)

\* strings.ToLower on the letters of the root names
ToLowerChar(c) ==
    CASE c = "H" -> "h" [] c = "K" -> "k" [] c = "L" -> "l" [] c = "M" -> "m"
      [] c = "C" -> "c" [] c = "U" -> "u" [] OTHER -> c

ToLower(str) == [j \in 1..Len(str) |-> ToLowerChar(str[j])]

\* strings.Replace(str, "/", `\`, -1)
ReplaceSlashes(str) == [j \in 1..Len(str) |-> IF str[j] = "/" THEN "\\" ELSE str[j]]

\* a frame of populate: pos is the entry, parent the handle argument, pc the
\* next step ("open", "loop" for a key, "probe", "read" for a value), i the
\* next subentry of the loop, deferred whether the close is deferred,
\* keyType and dataLen the locals the probe fills
Frame(pos, parent, e) ==
    [pos |-> pos, parent |-> parent, pc |-> IF e.isKey THEN "open" ELSE "probe",
     i |-> 1, deferred |-> FALSE, keyType |-> 0, dataLen |-> 0]

\* a store operation as the store sees it: op on the handle h with the name
\* name, whether it succeeded and the handle it gave out; by is the entry
\* whose populate issued it
Op(op, by, h, name, ok, out) ==
    [op |-> op, by |-> by, h |-> h, name |-> name, ok |-> ok, out |-> out]

top == stack[Len(stack)]

Pop == SubSeq(stack, 1, Len(stack) - 1)

\* a Parse that goes on to unmarshal whatever populate returned
ReturnToIgnoringError(s, e) ==
    /\ stack' = s
    /\ err' = e
    /\ IF s = <<>>
       THEN phase' = "unmarshal" /\ result' = result
       ELSE UNCHANGED <<phase, result>>

\* populate returns e to its caller; the outermost caller is Parse, which
\* returns the error or goes on to unmarshal
ReturnTo(s, e) ==
    /\ stack' = s
    /\ err' = e
    /\ IF s = <<>>
       THEN IF e # "nil" THEN phase' = "done" /\ result' = e
            ELSE phase' = "unmarshal" /\ result' = result
       ELSE UNCHANGED <<phase, result>>

\* a switch without its default case: rootHkey stays syscall.Handle(0)
rootLookupNoDefault(host) ==
    LET l == ToLower(host)
    IN  CASE l = <<"h", "k", "c", "u">> ->
               [known |-> TRUE, rootHkey |-> RootHandle("HKEY_CURRENT_USER")]
          [] l = <<"h", "k", "l", "m">> ->
               [known |-> TRUE, rootHkey |-> RootHandle("HKEY_LOCAL_MACHINE")]
          [] OTHER -> [known |-> TRUE, rootHkey |-> NoHandle]

\* the switch of Parse on the lower-cased root name: the root handle, or the
\* default case
rootLookup(host) ==
    LET l == ToLower(host)
    IN  CASE l = <<"h", "k", "c", "u">> ->
               [known |-> TRUE, rootHkey |-> RootHandle("HKEY_CURRENT_USER")]
          [] l = <<"h", "k", "l", "m">> ->
               [known |-> TRUE, rootHkey |-> RootHandle("HKEY_LOCAL_MACHINE")]
          [] OTHER -> [known |-> FALSE, rootHkey |-> NoHandle]

\* Parse up to the call of ent.populate(rootHkey)
Parse ==
    /\ phase = "idle"
    /\ UNCHANGED <<u, ttype, target, target0, intSize, storeValues, err, ops,
                   open, nextHandle, codecVars>>
    /\ IF (ttype.k = "Ptr" /\ ttype.elem.k # "Struct") /\ (ttype.k # "Struct")
       THEN phase' = "done" /\ result' = "MalformedTarget"
            /\ UNCHANGED <<ent, stack>>
       ELSE IF u.err
       THEN phase' = "done" /\ result' = "UrlError" /\ UNCHANGED <<ent, stack>>
       ELSE IF ~rootLookup(u.Host).known
       THEN phase' = "done" /\ result' = "UnknownRoot" /\ UNCHANGED <<ent, stack>>
       ELSE IF Len(u.Path) < 1
       THEN \* regUrl.Path[1:] of an empty path
            phase' = "done" /\ result' = "panic" /\ UNCHANGED <<ent, stack>>
       ELSE LET rootHkey == rootLookup(u.Host).rootHkey
                path == ReplaceSlashes(Tail(u.Path))
                e == entryFor(ttype, path, FieldInfo(<<>>, TRUE, <<>>, FALSE))
            IN  /\ ent' = e
                /\ stack' = <<Frame(<<>>, rootHkey, e)>>
                /\ phase' = "populate"
                /\ result' = result

\* registryKey.populate up to its loop: the open of a non-embedded key
KeyOpen ==
    /\ phase = "populate" /\ stack # <<>> /\ top.pc = "open"
    /\ UNCHANGED <<u, ttype, target, target0, intSize, storeValues, codecVars>>
    /\ LET rk == EntAt(ent, top.pos)
       IN  IF ~rk.field.anonymous
           THEN \E ok \in BOOLEAN :
                  /\ ops' = Append(ops, Op("open", top.pos, top.parent, rk.path, ok,
                                        IF ok THEN StoreHandle(nextHandle) ELSE NoHandle))
                  /\ IF ~ok
                     THEN /\ UNCHANGED <<open, nextHandle>>
                          /\ IF rk.field.required
                             THEN ent' = ent /\ ReturnTo(Pop, "RequiredMissing")
                             ELSE /\ ent' = EntPut(ent, top.pos, [rk EXCEPT !.skip = TRUE])
                                  /\ ReturnTo(Pop, "nil")
                     ELSE /\ ent' = EntPut(ent, top.pos,
                                           [rk EXCEPT !.hkey = StoreHandle(nextHandle)])
                          /\ open' = open \cup {StoreHandle(nextHandle)}
                          /\ nextHandle' = nextHandle + 1
                          /\ stack' = [stack EXCEPT ![Len(stack)].pc = "loop",
                                                    ![Len(stack)].deferred = TRUE]
                          /\ UNCHANGED <<err, phase, result>>
           ELSE /\ ent' = EntPut(ent, top.pos, [rk EXCEPT !.hkey = top.parent])
                /\ stack' = [stack EXCEPT ![Len(stack)].pc = "loop"]
                /\ UNCHANGED <<err, phase, result, ops, open, nextHandle>>

\* a loop that hands its own parent handle on to the subentries
KeyLoopParentHandle ==
    /\ phase = "populate" /\ stack # <<>> /\ top.pc = "loop" /\ err = "nil"
    /\ LET rk == EntAt(ent, top.pos)
       IN  /\ top.i <= Len(rk.subentries)
           /\ stack' = Append([stack EXCEPT ![Len(stack)].i = top.i + 1],
                              Frame(Append(top.pos, top.i), top.parent,
                                    rk.subentries[top.i]))
    /\ UNCHANGED <<u, ttype, target, target0, intSize, storeValues, ent, err,
                   phase, result, ops, open, nextHandle, codecVars>>

\* one round of the loop of registryKey.populate: entry.populate(rk.hkey)
KeyLoop ==
    /\ phase = "populate" /\ stack # <<>> /\ top.pc = "loop" /\ err = "nil"
    /\ LET rk == EntAt(ent, top.pos)
       IN  /\ top.i <= Len(rk.subentries)
           /\ stack' = Append([stack EXCEPT ![Len(stack)].i = top.i + 1],
                              Frame(Append(top.pos, top.i), rk.hkey,
                                    rk.subentries[top.i]))
    /\ UNCHANGED <<u, ttype, target, target0, intSize, storeValues, ent, err,
                   phase, result, ops, open, nextHandle, codecVars>>

\* a return that closes the key after the loop only, not when a subentry
\* failed: a close that is not deferred
KeyReturnCloseAfterLoop ==
    /\ phase = "populate" /\ stack # <<>> /\ top.pc = "loop"
    /\ ~(err = "nil" /\ top.i <= Len(EntAt(ent, top.pos).subentries))
    /\ UNCHANGED <<u, ttype, target, target0, intSize, storeValues, ent,
                   nextHandle, codecVars>>
    /\ IF top.deferred /\ err = "nil"
       THEN \E ok \in BOOLEAN :
              LET hkey == EntAt(ent, top.pos).hkey
              IN  /\ ops' = Append(ops, Op("close", top.pos, hkey, <<>>, ok, NoHandle))
                  /\ open' = IF ok THEN open \ {hkey} ELSE open
                  /\ ReturnTo(Pop, IF ok THEN err ELSE "panic")
       ELSE UNCHANGED <<ops, open>> /\ ReturnTo(Pop, err)

\* registryKey.populate returns (the loop is over, a subentry failed or
\* panicked): the deferred close runs, then the caller gets the error
KeyReturn ==
    /\ phase = "populate" /\ stack # <<>> /\ top.pc = "loop"
    /\ ~(err = "nil" /\ top.i <= Len(EntAt(ent, top.pos).subentries))
    /\ UNCHANGED <<u, ttype, target, target0, intSize, storeValues, ent,
                   nextHandle, codecVars>>
    /\ IF top.deferred
       THEN \E ok \in BOOLEAN :
              LET hkey == EntAt(ent, top.pos).hkey
              IN  /\ ops' = Append(ops, Op("close", top.pos, hkey, <<>>, ok, NoHandle))
                  /\ open' = IF ok THEN open \ {hkey} ELSE open
                  /\ ReturnTo(Pop, IF ok THEN err ELSE "panic")
       ELSE UNCHANGED <<ops, open>> /\ ReturnTo(Pop, err)

\* registryValue.populate up to the second query: the size and type probe
ValueProbe ==
    /\ phase = "populate" /\ stack # <<>> /\ top.pc = "probe"
    /\ UNCHANGED <<u, ttype, target, target0, intSize, storeValues, open,
                   nextHandle, codecVars>>
    /\ LET rv == EntAt(ent, top.pos)
       IN  \/ /\ ops' = Append(ops, Op("probe", top.pos, top.parent, rv.field.name,
                                   FALSE, NoHandle))
              /\ IF rv.field.required
                 THEN ent' = ent /\ ReturnTo(Pop, "RequiredMissing")
                 ELSE /\ ent' = EntPut(ent, top.pos, [rv EXCEPT !.skip = TRUE])
                      /\ ReturnTo(Pop, "nil")
           \/ \E v \in storeValues :
                /\ ops' = Append(ops, Op("probe", top.pos, top.parent, rv.field.name,
                                     TRUE, NoHandle))
                /\ ent' = ent
                /\ IF Len(v.data) = 0
                   THEN \* &data[0] of an empty slice
                        ReturnTo(Pop, "panic")
                   ELSE /\ stack' = [stack EXCEPT ![Len(stack)].pc = "read",
                                                  ![Len(stack)].keyType = v.kind,
                                                  ![Len(stack)].dataLen = Len(v.data)]
                        /\ UNCHANGED <<err, phase, result>>

\* registryValue.populate from the second query on: the full read
ValueRead ==
    /\ phase = "populate" /\ stack # <<>> /\ top.pc = "read"
    /\ UNCHANGED <<u, ttype, target, target0, intSize, storeValues, open,
                   nextHandle, codecVars>>
    /\ LET rv == EntAt(ent, top.pos)
       IN  \/ /\ ops' = Append(ops, Op("read", top.pos, top.parent, rv.field.name,
                                   FALSE, NoHandle))
              /\ ent' = ent
              /\ ReturnTo(Pop, "StoreError")
           \/ \E v \in storeValues :
                /\ v.kind = top.keyType /\ Len(v.data) = top.dataLen
                /\ ops' = Append(ops, Op("read", top.pos, top.parent, rv.field.name,
                                     TRUE, NoHandle))
                /\ ent' = EntPut(ent, top.pos,
                                 [rv EXCEPT !.data = v.data, !.kind = top.keyType])
                /\ ReturnTo(Pop, "nil")

\* Parse from ent.unmarshal(rval) on
Unmarshal ==
    /\ phase = "unmarshal"
    /\ LET r == EntryUnmarshal(ent, ttype, target, FALSE)
       IN  /\ target' = r.val
           /\ result' = r.err
    /\ phase' = "done"
    /\ UNCHANGED <<u, ttype, target0, intSize, storeValues, ent, stack, err,
                   ops, open, nextHandle, codecVars>>

\* a lone rv.unmarshal(val) on a settable field of type ctype holding its
\* zero value
UnmarshalValue ==
    /\ ~cout.run
    /\ LET r == ValueUnmarshal(crv, ctype, Zero(ctype), TRUE)
       IN  cout' = [run |-> TRUE, err |-> r.err, val |-> r.val]
    /\ UNCHANGED <<engineVars, intSize, crv, ctype>>

-----------------------------------------------------------------------------
(* The calls checked *)

RequiredTag == <<",", "required">>

ExtraNames == <<"C", "D", "E", "F">>

\* struct { A uint32 `registry:"..."`; C uint32; ... } with MaxSubValues fields
SubStruct(tagA) ==
    StructOf([j \in 1..MaxSubValues |->
                IF j = 1 THEN StructField(<<"A">>, tagA, FALSE, <<>>, Scalar("Uint32"))
                ELSE StructField(<<ExtraNames[j - 1]>>, <<>>, FALSE, <<>>,
                                 Scalar("Uint32"))])

\* struct { A typA; S sub (or an embedded sub); B uint32 }, each with its tag:
\* the shape of ComplexStruct of the tests
RootStruct(tagA, typA, tagS, anonymous, typS, tagB) ==
    StructOf(<<StructField(<<"A">>, tagA, FALSE, <<>>, typA),
               StructField(<<"S">>, tagS, anonymous, <<>>, typS),
               StructField(<<"B">>, tagB, FALSE, <<>>, Scalar("Uint32"))>>)

RootStructs ==
    {RootStruct(tagA, typA, tagS, anonymous, typS, tagB) :
        tagA \in {<<>>, RequiredTag},
        typA \in {Scalar("Uint32"), PtrTo(Scalar("Uint32"))},
        tagS \in {<<>>, RequiredTag},
        anonymous \in BOOLEAN,
        typS \in UNION {{SubStruct(t), PtrTo(SubStruct(t))} : t \in {<<>>, RequiredTag}},
        tagB \in {<<>>, <<"A">>, RequiredTag, <<"-">>}}

\* struct { A uint32; b uint32 } with b unexported
SimpleStruct ==
    StructOf(<<StructField(<<"A">>, <<>>, FALSE, <<>>, Scalar("Uint32")),
               StructField(<<"b">>, <<>>, FALSE, <<"registry">>, Scalar("Uint32"))>>)

Location(host, path) == [err |-> FALSE, Host |-> host, Path |-> path]

\* "//hklm/T"
DefaultLocation == Location(<<"h", "k", "l", "m">>, <<"/", "T">>)

Locations ==
    {DefaultLocation,
     Location(<<"H", "k", "C", "U">>, <<"/", "T", "/", "U">>),
     Location(<<"b", "o", "g", "u", "s">>, <<"/", "T">>),
     Location(<<"h", "k", "l", "m">>, <<>>),
     [err |-> TRUE, Host |-> <<>>, Path |-> <<>>]}

Call(loc, typ, val) == [u |-> loc, ttype |-> typ, target |-> val]

\* targets that are not a pointer to a fresh struct: an integer and a string
\* by value and behind a pointer, a struct by value, a nil pointer to a struct
SpecialTargets ==
    {Call(DefaultLocation, t, Zero(t)) :
        t \in {Scalar("Int32"), Scalar("String"), SimpleStruct}}
    \cup {Call(DefaultLocation, PtrTo(t), PtrVal(Zero(t))) :
        t \in {Scalar("Int32"), Scalar("String"), SimpleStruct}}
    \cup {Call(DefaultLocation, PtrTo(SimpleStruct), NilPtr)}

EngineCalls ==
    {Call(DefaultLocation, PtrTo(t), PtrVal(Zero(t))) : t \in RootStructs}
    \cup {Call(loc, s.ttype, s.target) : loc \in Locations, s \in SpecialTargets}

StoreValue(kind, data) == [kind |-> kind, data |-> data]

EngineStoreValues ==
    {StoreValue(REG_DWORD_LITTLE_ENDIAN, <<7, 0, 0, 0>>),
     StoreValue(REG_QWORD_LITTLE_ENDIAN, <<1, 0, 0, 0, 0, 0, 0, 0>>),
     StoreValue(REG_NONE, <<1>>),
     StoreValue(REG_BINARY, <<>>)}

NotRun == [run |-> FALSE]

Init ==
    /\ intSize = 64
    /\ storeValues = EngineStoreValues
    /\ \E c \in EngineCalls : u = c.u /\ ttype = c.ttype /\ target = c.target
    /\ target0 = target
    /\ phase = "idle"
    /\ ent = NoEntry
    /\ stack = <<>>
    /\ err = "nil"
    /\ result = "none"
    /\ ops = <<>>
    /\ open = {}
    /\ nextHandle = 1
    /\ crv = NoEntry
    /\ ctype = Scalar("Bool")
    /\ cout = [run |-> TRUE, err |-> "nil", val |-> Zero(Scalar("Bool"))]

Next ==
    \/ Parse
    \/ KeyOpen
    \/ KeyLoop
    \/ KeyReturn
    \/ ValueProbe
    \/ ValueRead
    \/ Unmarshal

Spec == Init /\ [][Next]_vars

(* The codec alone *)

CodecTags ==
    {REG_NONE, REG_SZ, REG_EXPAND_SZ, REG_BINARY, REG_DWORD_LITTLE_ENDIAN,
     REG_DWORD_BIG_ENDIAN, REG_LINK, REG_MULTI_SZ, REG_QWORD_LITTLE_ENDIAN}

CodecScalars ==
    {Scalar(k) : k \in UintKinds \cup IntKinds
                       \cup {"Uint64", "Int64", "String", "Bool", "Float64", "Uintptr"}}

CodecTypes ==
    CodecScalars
    \cup {SliceOf(Scalar("Uint8")), SliceOf(Scalar("String")), SliceOf(Scalar("Int32"))}
    \cup {PtrTo(Scalar("Uint32")), PtrTo(Scalar("Int64")), PtrTo(Scalar("String")),
          PtrTo(SliceOf(Scalar("String"))), PtrTo(PtrTo(Scalar("Uint32")))}

\* the UTF-16LE bytes of a sequence of code units
UnitsToBytes(us) ==
    [j \in 1..2 * Len(us) |->
        IF j % 2 = 1 THEN us[(j + 1) \div 2] % 256 ELSE us[j \div 2] \div 256]

\* raw buffers of every shape a branch of unmarshal tells apart: shorter and
\* longer than the integer read, odd, with a surrogate pair, a lone surrogate
SmallBuffers ==
    {<<1>>, <<65, 0>>, <<0, 0>>, <<1, 2, 3>>, <<1, 2, 3, 4>>, <<65, 0, 0, 0>>,
     <<65, 0, 0, 0, 66>>, <<65, 0, 0, 0, 0, 0>>, <<1, 2, 3, 4, 5, 6, 7, 8>>,
     <<61, 216, 0, 222, 0, 0>>, <<61, 216, 65, 0, 0, 0, 0, 0>>,
     <<1, 2, 3, 4, 5, 6, 7, 8, 9>>}

TextBuffers == {UnitsToBytes(us) : us \in SeqsUpTo({0, 65, 66}, MaxUnits)}

TextTypes == {Scalar("String"), SliceOf(Scalar("String"))}

CodecCalls ==
    (CodecTags \X SmallBuffers \X CodecTypes)
    \cup ({REG_SZ, REG_MULTI_SZ} \X (TextBuffers \ {<<>>}) \X TextTypes)

InitCodec ==
    /\ intSize \in {32, 64}
    /\ \E c \in CodecCalls :
         /\ crv = [isKey |-> FALSE, field |-> FieldInfo(<<"V">>, FALSE, <<1>>, FALSE),
                   data |-> c[2], kind |-> c[1], skip |-> FALSE]
         /\ ctype = c[3]
    /\ cout = NotRun
    /\ storeValues = {}
    /\ u = DefaultLocation
    /\ ttype = Scalar("Bool")
    /\ target = Zero(ttype)
    /\ target0 = target
    /\ phase = "done"
    /\ ent = NoEntry
    /\ stack = <<>>
    /\ err = "nil"
    /\ result = "none"
    /\ ops = <<>>
    /\ open = {}
    /\ nextHandle = 1

NextCodec == UnmarshalValue

SpecCodec == InitCodec /\ [][NextCodec]_vars

-----------------------------------------------------------------------------
(* What the properties speak of *)

EntPositions == IF ent = NoEntry THEN {} ELSE Positions(ent, <<>>)

KeyPositions == {p \in EntPositions : EntAt(ent, p).isKey}

Front(p) == SubSeq(p, 1, Len(p) - 1)

IsPrefix(p, q) == Len(p) <= Len(q) /\ SubSeq(q, 1, Len(p)) = p

OpsBy(p) == {k \in 1..Len(ops) : ops[k].by = p}

OpsByChildrenOf(p) ==
    {k \in 1..Len(ops) : Len(ops[k].by) = Len(p) + 1 /\ IsPrefix(p, ops[k].by)
                         /\ ops[k].op # "close"}

OpsBelow(p) == {k \in 1..Len(ops) : ops[k].by # p /\ IsPrefix(p, ops[k].by)}

OpensBy(p) == {k \in OpsBy(p) : ops[k].op = "open"}

ClosesBy(p) == {k \in OpsBy(p) : ops[k].op = "close"}

Running(p) == \E j \in 1..Len(stack) : stack[j].pos = p

FailedLookup(p) ==
    \E k \in OpsBy(p) : ops[k].op \in {"open", "probe", "read"} /\ ~ops[k].ok

Returned == phase = "done" /\ result # "panic"

IsComposite(typ) == typ.k = "Struct" \/ (typ.k = "Ptr" /\ typ.elem.k = "Struct")

\* the call the tests make: a pointer to a fresh struct
PointerToStruct == ttype.k = "Ptr" /\ ttype.elem.k = "Struct" /\ ~target0.nil

RECURSIVE HandleOf(_)
\* the container handle of the key at position p as the store gave it out:
\* an embedded key has the handle of its enclosing key
HandleOf(p) ==
    IF EntAt(ent, p).field.anonymous THEN HandleOf(Front(p))
    ELSE IF \E k \in OpensBy(p) : ops[k].ok
    THEN ops[CHOOSE k \in OpensBy(p) : ops[k].ok].out
    ELSE NoHandle

RECURSIVE TargetAt(_, _, _, _)
\* the field of the target that the entry at position pos of e is written
\* to, and its type; val of type typ is what e itself is written to.  A nil
\* pointer on the way stands for zero fields.
TargetAt(e, typ, val, pos) ==
    IF pos = <<>> THEN [typ |-> typ, val |-> val]
    ELSE LET styp == IF typ.k = "Ptr" THEN typ.elem ELSE typ
             sval == IF typ.k = "Ptr"
                     THEN (IF val.nil THEN Zero(typ.elem) ELSE val.e)
                     ELSE val
             sub == e.subentries[Head(pos)]
             ix == sub.field.index[1]
         IN  TargetAt(sub, styp.fields[ix].Type, sval.f[ix], Tail(pos))

\* two fields of one struct type that are both kept and resolve to one name
DuplicateIn(typ) ==
    \E i, j \in 1..Len(typ.fields) :
        /\ i < j
        /\ fieldToFieldInfo(typ.fields[i], i) # NilFieldInfo
        /\ fieldToFieldInfo(typ.fields[j], j) # NilFieldInfo
        /\ fieldToFieldInfo(typ.fields[i], i).name = fieldToFieldInfo(typ.fields[j], j).name

RECURSIVE HasDuplicateNames(_)
HasDuplicateNames(typ) ==
    CASE typ.k = "Ptr" -> HasDuplicateNames(typ.elem)
      [] typ.k = "Struct" ->
           \/ DuplicateIn(typ)
           \/ \E i \in 1..Len(typ.fields) :
                /\ fieldToFieldInfo(typ.fields[i], i) # NilFieldInfo
                /\ HasDuplicateNames(typ.fields[i].Type)
      [] OTHER -> FALSE

-----------------------------------------------------------------------------
(* Properties of Parse (Spec) *)

\* C1: every container handle a non-embedded key's populate opened is closed
\* exactly once, by that populate, after every store operation of its
\* descendants and before it returns, on success, on error and on panic
\* alike; an embedded key and a key whose open failed close nothing; when
\* Parse has returned no handle is open.  (A close the store refuses is a
\* panic: Parse does not return.)
C1_HandlesClosedOnEveryExit ==
    /\ \A p \in KeyPositions :
         LET rk == EntAt(ent, p)
             opened == {k \in OpensBy(p) : ops[k].ok}
         IN  /\ (rk.field.anonymous \/ opened = {}) => ClosesBy(p) = {}
             /\ Cardinality(opened) <= 1
             /\ opened # {} =>
                  IF Running(p) THEN ClosesBy(p) = {}
                  ELSE /\ Cardinality(ClosesBy(p)) = 1
                       /\ \A c \in ClosesBy(p) :
                            /\ \A k \in opened : ops[c].h = ops[k].out /\ k < c
                            /\ \A k \in OpsBelow(p) : k < c
    /\ \A c \in 1..Len(ops) :
         ops[c].op = "close" =>
           Cardinality({k \in 1..Len(ops) : ops[k].op = "close" /\ ops[k].h = ops[c].h}) = 1
    /\ (phase \in {"unmarshal", "done"} /\ result # "panic") => open = {}

\* C1 witness: Parse returned the error of a failed read two containers
\* deep, and both containers were closed
C1_Witness ==
    /\ Returned /\ result = "StoreError"
    /\ \E p \in KeyPositions : p # <<>> /\ ClosesBy(p) # {} /\ ClosesBy(<<>>) # {}
                               /\ \E k \in OpsBelow(p) : ~ops[k].ok

\* C9: an embedded key issues no open and no close and its subentries are
\* queried against the handle the subentries of its enclosing key are
\* queried against; a non-embedded nested key opens one container, named
\* after its field, under the handle of its enclosing key, and its
\* subentries are queried against the handle that open gave out, which is
\* no handle of any other key.
C9_EmbeddedSharesHandle ==
    \A p \in KeyPositions :
      LET rk == EntAt(ent, p)
      IN  /\ \A k \in OpsByChildrenOf(p) : ops[k].h = HandleOf(p)
          /\ p # <<>> =>
               IF rk.field.anonymous
               THEN /\ OpsBy(p) = {}
                    /\ \A k \in OpsByChildrenOf(p), k2 \in OpsByChildrenOf(Front(p)) :
                         ops[k].h = ops[k2].h
               ELSE /\ Cardinality(OpensBy(p)) <= 1
                    /\ \A k \in OpensBy(p) :
                         /\ ops[k].h = HandleOf(Front(p))
                         /\ ops[k].name = rk.field.name
                    /\ OpsByChildrenOf(p) # {} =>
                         /\ \E k \in OpensBy(p) : ops[k].ok
                         /\ HandleOf(p) # NoHandle
                         /\ \A q \in KeyPositions :
                              (~IsPrefix(p, q) /\ HandleOf(q) = HandleOf(p)) => FALSE
                         /\ \A k \in OpsByChildrenOf(p), k2 \in OpsByChildrenOf(Front(p)) :
                              ops[k].h # ops[k2].h

\* C9 witness: a decode of a struct with an embedded struct succeeded, and a
\* value of the embedded struct was read from the container opened for the
\* root
C9_Witness ==
    /\ Returned /\ result = "nil"
    /\ \E p \in KeyPositions :
         /\ p # <<>> /\ EntAt(ent, p).field.anonymous
         /\ \E k \in OpsByChildrenOf(p) :
              /\ ops[k].op = "read" /\ ops[k].ok
              /\ \E o \in OpensBy(<<>>) : ops[o].ok /\ ops[o].out = ops[k].h

\* C2 as claimed: when the store lookup of a required entry failed (the open
\* of a key, the probe or the read of a value), Parse returns RequiredMissing
\* and the target still has its zero value.
C2_RequiredLookupFailureIsRequiredMissing ==
    (/\ PointerToStruct /\ Returned
     /\ \E p \in EntPositions : EntAt(ent, p).field.required /\ FailedLookup(p))
    => (result = "RequiredMissing" /\ target = target0)

\* C3 as claimed: when the store lookup of an entry that is not required
\* failed (the open of a key, the probe or the read of a value), that entry
\* is skipped with empty raw data, its populate returned success, no store
\* operation was issued for its descendants, and after a successful decode
\* its target field is zero.
C3_OptionalLookupFailureIsSkip ==
    PointerToStruct =>
      \A p \in EntPositions :
        LET e == EntAt(ent, p)
        IN  (~e.field.required /\ FailedLookup(p) /\ ~Running(p)) =>
              /\ e.skip
              /\ ~e.isKey => e.data = <<>>
              /\ OpsBelow(p) = {}
              /\ ops[Len(ops)].by = p => err = "nil"
              /\ (Returned /\ result = "nil") =>
                   LET f == TargetAt(ent, ttype, target, p)
                   IN  f.val = Zero(f.typ)

PopulateFailed == phase = "done" /\ err # "nil"

KnownRootName ==
    ~u.err /\ ToLower(u.Host) \in {<<"h", "k", "c", "u">>, <<"h", "k", "l", "m">>}

UnknownRootName == ~u.err /\ ~KnownRootName

\* C5 as claimed: when the root name is none of hkcu, hklm (in any case),
\* Parse returns UnknownRoot, issues no store operation and leaves the target
\* as it was.
C5_UnknownRootAlwaysReported ==
    UnknownRootName =>
      /\ ops = <<>> /\ target = target0
      /\ phase = "done" => result = "UnknownRoot"

\* C5 amended: when the root name is none of hkcu, hklm (in any case), Parse
\* issues no store operation and leaves the target as it was, and it returns
\* UnknownRoot unless the target is a pointer to a non-struct, which is
\* rejected first, with MalformedTarget.
C5_UnknownRootNoStoreOperation ==
    UnknownRootName =>
      /\ ops = <<>> /\ target = target0 /\ open = {}
      /\ phase = "done" =>
           result = IF ttype.k = "Ptr" /\ ttype.elem.k # "Struct"
                    THEN "MalformedTarget" ELSE "UnknownRoot"

\* C5 witness: Parse of a location with the root "bogus" returned UnknownRoot
C5_Witness ==
    /\ phase = "done" /\ result = "UnknownRoot"
    /\ u.Host = <<"b", "o", "g", "u", "s">>

\* C6 as claimed: when the target is neither a struct nor a pointer to a
\* struct (a location with a known root and a path given), Parse returns
\* MalformedTarget and issues no store operation.
C6_NonCompositeTargetRejected ==
    (~IsComposite(ttype) /\ KnownRootName /\ u.Path # <<>>)
    => /\ ops = <<>>
       /\ phase = "done" => result = "MalformedTarget"

\* C7 as claimed: the names of the subentries of one key are pairwise
\* distinct, and a target with two kept fields of one name in one struct
\* makes Parse fail before any store operation.
C7_SubentryNamesDistinct ==
    /\ \A p \in KeyPositions :
         LET subs == EntAt(ent, p).subentries
         IN  \A i, j \in 1..Len(subs) :
               i # j => subs[i].field.name # subs[j].field.name
    /\ (HasDuplicateNames(ttype) /\ KnownRootName)
       => /\ ops = <<>>
          /\ phase = "done" => result \notin {"nil", "RequiredMissing", "StoreError",
                                              "UnsupportedStoreType", "TypeMismatch"}

-----------------------------------------------------------------------------
(* Properties of registryValue.unmarshal (SpecCodec) *)

\* the UTF-16LE bytes of A, NUL, B, NUL, NUL
MultiTextAB == UnitsToBytes(<<65, 0, 66, 0, 0>>)

MultiTextABDecoded ==
    /\ cout.run /\ crv.kind = REG_MULTI_SZ /\ crv.data = MultiTextAB
    /\ ctype = SliceOf(Scalar("String"))

\* C8 as claimed: the multi-text buffer A, NUL, B, NUL, NUL decodes into a
\* []string field as the one-element list ["A"].
C8_MultiTextYieldsA ==
    MultiTextABDecoded =>
      (cout.err = "nil" /\ cout.val = SliceVal(<<StrVal(<<65>>)>>))

\* C8 amended: the multi-text buffer A, NUL, B, NUL, NUL decodes into a
\* []string field as the two-element list ["A", "B"]: the split on NUL
\* gives the four segments "A", "B", "", "" and the last two are dropped.
C8_MultiTextYieldsAB ==
    MultiTextABDecoded =>
      /\ Split(RunesToString(utf16BytesToUTF8(crv.data)), 0)
           = <<<<65>>, <<66>>, <<>>, <<>>>>
      /\ cout.err = "nil"
      /\ cout.val = SliceVal(<<StrVal(<<65>>), StrVal(<<66>>)>>)

\* C8 witness: that buffer was decoded into a []string field, two strings
\* came out
C8_Witness == MultiTextABDecoded /\ Len(cout.val.e) = 2

RecognizedTags ==
    {REG_DWORD_BIG_ENDIAN, REG_DWORD_LITTLE_ENDIAN, REG_QWORD_LITTLE_ENDIAN,
     REG_SZ, REG_EXPAND_SZ, REG_MULTI_SZ, REG_BINARY}

\* the field type with one pointer level taken off
Pointee(typ) == IF typ.k = "Ptr" THEN typ.elem ELSE typ

IsIntegerType(typ) == typ.k \in UintKinds \cup IntKinds \cup {"Uint64", "Int64"}

\* the pairs the claim calls compatible, integer fields told apart by width
CompatibleByWidth(tag, typ) ==
    CASE tag \in {REG_DWORD_BIG_ENDIAN, REG_DWORD_LITTLE_ENDIAN} ->
           IsIntegerType(typ) /\ 8 * Width(typ.k) <= 32
      [] tag = REG_QWORD_LITTLE_ENDIAN ->
           IsIntegerType(typ) /\ 8 * Width(typ.k) = 64
      [] tag \in {REG_SZ, REG_EXPAND_SZ} -> typ.k = "String"
      [] tag = REG_MULTI_SZ -> typ.k = "Slice" /\ typ.elem.k = "String"
      [] tag = REG_BINARY -> typ.k = "Slice" /\ typ.elem.k = "Uint8"
      [] OTHER -> FALSE

\* raw data the text rules cannot slice: a text of less than two bytes, a
\* multi-text without any NUL code unit
TooShortForText(tag, data) ==
    \/ tag \in {REG_SZ, REG_EXPAND_SZ} /\ Len(data) < 2
    \/ /\ tag = REG_MULTI_SZ
       /\ \A j \in 1..(Len(data) \div 2) : data[2 * j - 1] # 0 \/ data[2 * j] # 0

\* C10 as claimed: unmarshal of a populated value (its raw data long enough
\* for the text rules) fails with UnsupportedStoreType for an unrecognized
\* tag, succeeds for a compatible pair of tag and field kind (32-bit tags
\* into integers of at most 32 bits, the 64-bit tag into 64-bit integers,
\* text into string, multi-text into []string, binary into []byte) and fails
\* with TypeMismatch for every other.
C10_SucceedsIffCompatibleByWidth ==
    (cout.run /\ ~TooShortForText(crv.kind, crv.data)) =>
      cout.err = IF crv.kind \notin RecognizedTags THEN "UnsupportedStoreType"
                 ELSE IF CompatibleByWidth(crv.kind, Pointee(ctype)) THEN "nil"
                 ELSE "TypeMismatch"

\* the pairs compatible by the kind of the field
CompatibleByKind(tag, typ) ==
    CASE tag \in {REG_DWORD_BIG_ENDIAN, REG_DWORD_LITTLE_ENDIAN} ->
           typ.k \in {"Uint", "Uint8", "Uint16", "Uint32", "Int", "Int8", "Int16", "Int32"}
      [] tag = REG_QWORD_LITTLE_ENDIAN -> typ.k \in {"Uint64", "Int64"}
      [] tag \in {REG_SZ, REG_EXPAND_SZ} -> typ.k = "String"
      [] tag = REG_MULTI_SZ -> typ.k = "Slice" /\ typ.elem.k = "String"
      [] tag = REG_BINARY -> typ.k = "Slice" /\ typ.elem.k = "Uint8"
      [] OTHER -> FALSE

\* C10 amended: unmarshal of a populated value fails with
\* UnsupportedStoreType for an unrecognized tag whatever the field; it panics
\* for a text value of less than two bytes and for a multi-text value
\* without a NUL, whatever the field; otherwise it succeeds if and only if
\* the pair is compatible, and fails with TypeMismatch if not: 32-bit tags
\* go into int8, int16, int32, uint8, uint16, uint32 and also into int and
\* uint whatever their width in the build, the 64-bit tag into int64 and
\* uint64 only (not into int or uint, 64 bits wide or not), text into
\* string, multi-text into []string, binary into []byte, a pointer field
\* counting as what it points to.
C10_SucceedsIffCompatibleByKind ==
    cout.run =>
      /\ cout.err = IF crv.kind \notin RecognizedTags THEN "UnsupportedStoreType"
                    ELSE IF TooShortForText(crv.kind, crv.data) THEN "panic"
                    ELSE IF CompatibleByKind(crv.kind, Pointee(ctype)) THEN "nil"
                    ELSE "TypeMismatch"
      /\ (cout.err # "nil" /\ ctype.k # "Ptr") => cout.val = Zero(ctype)

\* C10 witness: a 64-bit integer value was refused by a 32-bit integer
\* field, which kept its zero
C10_Witness ==
    /\ cout.run /\ crv.kind = REG_QWORD_LITTLE_ENDIAN /\ ctype = Scalar("Int32")
    /\ cout.err = "TypeMismatch" /\ cout.val = Zero(ctype)

====
